---------------------------- MODULE Spec2Model ----------------------------
(***************************************************************************)
(* s3explorer: the object-access hook (features/explorer/hooks.ts), the     *)
(* server functions and the module load of features/explorer/s3.server.ts, *)
(* and the selection and download state of ExplorerPage                    *)
(* (routes/index.tsx).                                                     *)
(*                                                                         *)
(* Strings the code takes apart (prefixes, common prefixes, folder names,  *)
(* ISO timestamps) are sequences of one-character strings; strings that    *)
(* are only passed through or compared whole are TLA+ strings.             *)
(***************************************************************************)
EXTENDS Integers, Sequences, FiniteSets, TLC

VARIABLES
    \* ---- useObjectAccess (hooks.ts) ----
    key,          \* the `key` argument of the last committed render (Null: null)
    disposition,  \* the `disposition` argument of the last committed render
    state,        \* the AccessState held by useState
    fetches,      \* the getObjectAccess calls started so far, in start order;
                  \* each carries its effect closure's `key`, `disposition`, `aborted`
    lastSettled,  \* the fetch (index in fetches) whose promise settled last; 0: none yet
    \* ---- listObjectsPaginated (s3.server.ts) ----
    bucket,       \* what the storage holds under the listed prefix
    engine,       \* argument order in which Array.prototype.sort calls the comparator
    request,      \* the input of the listObjectsPaginated call, once it is made
    result,       \* what that call returned
    \* ---- the server process and one server-function call, step by step ----
    processEnv,   \* process.env at module load: the five S3_* settings
    server,       \* "starting", "up" (s3.server.ts loaded), "failed" (envSchema.parse threw)
    call,         \* the server-function call in progress and where it stands
    ops,          \* the commands handed to the S3 client so far, in order
    reply,        \* how the call ended: a value, or the error it threw
    \* ---- ExplorerPage (routes/index.tsx) ----
    dataObjects,  \* keys of data.objects, the files of the current page
    selectedKey,  \* useState: the selected file (Null: null)
    effectPending,\* the selection effect's dependencies changed since it last ran
    accessState,  \* what useObjectAccess(selectedKey) currently returns
    downloadKey,  \* useState: the key shown as downloading (Null: null)
    downloads,    \* handleDownload calls awaiting getObjectAccess, by key
    \* ---- the URL search state of the route (routes/index.tsx) ----
    search,       \* Route.useSearch(): the validated search parameters
    navigation    \* the last navigate call: its handler and the `prev` it was given

accessVars == <<key, disposition, state, fetches, lastSettled>>
listVars == <<bucket, engine, request, result>>
serverVars == <<processEnv, server, call, ops, reply>>
pageVars == <<dataObjects, selectedKey, effectPending, accessState, downloadKey, downloads>>
searchVars == <<search, navigation>>
vars == <<key, disposition, state, fetches, lastSettled, bucket, engine, request, result,
          processEnv, server, call, ops, reply,
          dataObjects, selectedKey, effectPending, accessState, downloadKey, downloads,
          search, navigation>>

\* null / undefined
Null == "null"

(***************************************************************************)
(* Bounds                                                                  *)
(***************************************************************************)
\* getObjectAccess calls one behaviour may start
MaxFetches == 3

(***************************************************************************)
(* useObjectAccess                                                         *)
(***************************************************************************)
\* Values the `key` argument takes: null, the empty string, two object keys.
KeyInputs == {Null, "", "A", "B"}

Dispositions == {"inline", "attachment"}

\* What a rejected getObjectAccess promise carries: an Error with a message,
\* or a value that is not an Error.
Rejections ==
    { [isError |-> TRUE, message |-> "NotFound"],
      [isError |-> FALSE, message |-> ""] }

DefaultMessage == "Une erreur est survenue lors de la recuperation du document."

\* `!key`
Falsy(k) == k = Null \/ k = ""

Idle == [status |-> "idle"]
Loading(k) == [status |-> "loading", key |-> k]
Success(k, data) == [status |-> "success", key |-> k, data |-> data]
Failure(k, message) == [status |-> "error", key |-> k, message |-> message]

\* The ObjectAccess a fulfilled getObjectAccess({key, disposition}) carries.
ObjectAccess(k, d) == [key |-> k, disposition |-> d]

\* error instanceof Error ? error.message : '...'
MessageOf(error) == IF error.isError THEN error.message ELSE DefaultMessage

\* An effect that returns no cleanup: `aborted` is never set.
CleanupForgotten(fs) == fs

\* The cleanup returned by the previous run of the effect: aborted = true in
\* that run's closure. A run that returned early (falsy key) has no cleanup;
\* runs before the previous one were cleaned up when it ran.
Cleanup(fs) ==
    [i \in 1..Len(fs) |-> [fs[i] EXCEPT !.aborted = TRUE]]

InitAccess ==
    /\ key = Null
    /\ disposition = "inline"
    /\ state = Idle
    /\ fetches = <<>>
    /\ lastSettled = 0

\* An effect that starts the fetch without setState({ status: 'loading', key }).
SelectWithoutLoading(k, d) ==
    /\ <<k, d>> # <<key, disposition>>
    /\ Falsy(k) \/ Len(fetches) < MaxFetches
    /\ key' = k
    /\ disposition' = d
    /\ IF Falsy(k)
         THEN /\ state' = Idle
              /\ fetches' = Cleanup(fetches)
         ELSE /\ state' = state
              /\ fetches' = Append(Cleanup(fetches),
                                   [key |-> k, disposition |-> d, aborted |-> FALSE,
                                    outcome |-> "pending", dropped |-> FALSE])
    /\ UNCHANGED lastSettled
    /\ UNCHANGED <<listVars, serverVars, pageVars, searchVars>>

\* A render commits with arguments (k, d) that differ from the dependency
\* array [key, disposition] of the last run: React runs the previous cleanup
\* and then the effect. `dropped` records that a callback returned at
\* `if (aborted) return`.
Select(k, d) ==
    /\ <<k, d>> # <<key, disposition>>
    /\ Falsy(k) \/ Len(fetches) < MaxFetches
    /\ key' = k
    /\ disposition' = d
    /\ IF Falsy(k)
         THEN /\ state' = Idle
              /\ fetches' = Cleanup(fetches)
         ELSE /\ state' = Loading(k)
              /\ fetches' = Append(Cleanup(fetches),
                                   [key |-> k, disposition |-> d, aborted |-> FALSE,
                                    outcome |-> "pending", dropped |-> FALSE])
    /\ UNCHANGED lastSettled
    /\ UNCHANGED <<listVars, serverVars, pageVars, searchVars>>

\* Callbacks without the `if (aborted) return` guard.
ApplyUnguarded(f, next) == next

\* What a .then / .catch callback does to the state: nothing once aborted.
Apply(f, next) == IF f.aborted THEN state ELSE next

\* The promise of fetch i is fulfilled: the .then callback runs.
Resolve(i) ==
    /\ i \in 1..Len(fetches)
    /\ fetches[i].outcome = "pending"
    /\ state' = Apply(fetches[i],
                      Success(fetches[i].key,
                              ObjectAccess(fetches[i].key, fetches[i].disposition)))
    /\ fetches' = [fetches EXCEPT ![i].outcome = "fulfilled",
                                  ![i].dropped = fetches[i].aborted]
    /\ lastSettled' = i
    /\ UNCHANGED <<key, disposition>>
    /\ UNCHANGED <<listVars, serverVars, pageVars, searchVars>>

\* The promise of fetch i is rejected with `error`: the .catch callback runs.
Reject(i, error) ==
    /\ i \in 1..Len(fetches)
    /\ fetches[i].outcome = "pending"
    /\ state' = Apply(fetches[i], Failure(fetches[i].key, MessageOf(error)))
    /\ fetches' = [fetches EXCEPT ![i].outcome = "rejected",
                                  ![i].dropped = fetches[i].aborted]
    /\ lastSettled' = i
    /\ UNCHANGED <<key, disposition>>
    /\ UNCHANGED <<listVars, serverVars, pageVars, searchVars>>

NextAccess ==
    \/ \E k \in KeyInputs, d \in Dispositions : Select(k, d)
    \/ \E i \in 1..MaxFetches : Resolve(i)
    \/ \E i \in 1..MaxFetches, error \in Rejections : Reject(i, error)

(***************************************************************************)
(* Strings as character sequences                                          *)
(***************************************************************************)
Slash == <<"/">>

\* undefined, where a character sequence is expected
Undefined == <<"undefined">>

\* UTF-16 code units of the characters the model uses.
CharCode(c) ==
    CASE c = "/" -> 47
      [] c = "0" -> 48 [] c = "1" -> 49 [] c = "2" -> 50 [] c = "3" -> 51
      [] c = "4" -> 52 [] c = "5" -> 53 [] c = "6" -> 54 [] c = "7" -> 55
      [] c = "8" -> 56 [] c = "9" -> 57
      [] c = "a" -> 97 [] c = "b" -> 98 [] c = "c" -> 99 [] c = "d" -> 100
      [] c = "e" -> 101

Min(a, b) == IF a < b THEN a ELSE b
Max(a, b) == IF a > b THEN a ELSE b

\* s.endsWith(t)
EndsWith(s, t) ==
    /\ Len(t) <= Len(s)
    /\ SubSeq(s, Len(s) - Len(t) + 1, Len(s)) = t

\* s.startsWith(t)
StartsWith(s, t) ==
    /\ Len(t) <= Len(s)
    /\ SubSeq(s, 1, Len(t)) = t

\* s.indexOf(t) + 1: the first position where t occurs in s, 0 when it does not.
IndexOf(s, t) ==
    LET hits == { i \in 1..(Len(s) - Len(t) + 1) : SubSeq(s, i, i + Len(t) - 1) = t }
    IN  IF hits = {} THEN 0 ELSE CHOOSE i \in hits : \A j \in hits : i <= j

\* s.replace(t, ''): with a string pattern only the first occurrence goes.
ReplaceFirst(s, t) ==
    LET i == IndexOf(s, t)
    IN  IF i = 0 THEN s
        ELSE SubSeq(s, 1, i - 1) \o SubSeq(s, i + Len(t), Len(s))

\* s.replace(/^\/+/, '')
StripLeadingSlashes(s) ==
    LET lead == { n \in 0..Len(s) : \A i \in 1..n : s[i] = "/" }
        n == CHOOSE n \in lead : \A m \in lead : m <= n
    IN  SubSeq(s, n + 1, Len(s))

\* s.replace(/\/$/, '')
StripTrailingSlash(s) ==
    IF EndsWith(s, Slash) THEN SubSeq(s, 1, Len(s) - 1) ELSE s

\* a > b on strings: by code units, a proper prefix being the smaller.
StrGreater(a, b) ==
    \E i \in 1..Len(a) :
        /\ \A j \in 1..(i - 1) : j <= Len(b) /\ a[j] = b[j]
        /\ i > Len(b) \/ CharCode(a[i]) > CharCode(b[i])

\* array.slice(start, end)
Slice(s, start, end) ==
    IF start >= Len(s) THEN <<>> ELSE SubSeq(s, start + 1, Min(end, Len(s)))

\* Math.ceil(n / d) for integers n >= 0, d >= 1
Ceil(n, d) == (n + d - 1) \div d

(***************************************************************************)
(* normalizePrefix                                                         *)
(***************************************************************************)
normalizePrefix(prefix) ==
    IF prefix = Undefined \/ prefix = <<>> THEN <<>>
    ELSE LET trimmed == StripLeadingSlashes(prefix)
         IN  IF EndsWith(trimmed, Slash) THEN trimmed ELSE trimmed \o Slash

(***************************************************************************)
(* The storage behind s3.send(new ListObjectsV2Command(...))               *)
(***************************************************************************)
\* Files a bucket may hold under the listed prefix
MaxFiles == 3
\* Largest page number and page size a request asks for
MaxPage == 2
MaxItemsPerPage == 2

\* Names of the files, in the key order in which the storage lists them.
NameChars == <<"a", "b", "c", "e", "d">>

\* Last segments of the sub-prefixes, in the order the storage lists them. The
\* empty segment is the child of a key such as "d//x"; "d" under "d/" is a
\* folder named like its parent.
FolderSegments == << <<>>, <<"a">>, <<"d">> >>

\* LastModified of a stored object, as a month number; some entries carry none.
Dates == {3, 12}
FileSlots ==
    {[present |-> FALSE, dated |-> FALSE, at |-> 0],
     [present |-> TRUE, dated |-> FALSE, at |-> 0]}
    \cup {[present |-> TRUE, dated |-> TRUE, at |-> t] : t \in Dates}

Buckets ==
    [files : [1..MaxFiles -> FileSlots],
     folders : SUBSET (1..Len(FolderSegments))]

Digits == <<"0", "1", "2", "3", "4", "5", "6", "7", "8", "9">>

\* Date.prototype.toISOString(): fixed width, most significant digit first.
toISOString(t) == <<Digits[(t \div 10) + 1], Digits[(t % 10) + 1]>>

\* response.Contents for Prefix = prefix (Delimiter '/'): the immediate files in
\* key order, each with its Key.
Contents(b, prefix) ==
    LET idx == [i \in 1..MaxFiles |-> i]
        Present(i) == b.files[i].present
        kept == SelectSeq(idx, Present)
        named == [j \in 1..Len(kept) |->
                    [Key |-> prefix \o <<NameChars[kept[j]]>>,
                     Size |-> kept[j],
                     dated |-> b.files[kept[j]].dated,
                     LastModified |-> b.files[kept[j]].at]]
    IN  named

\* response.CommonPrefixes for Prefix = prefix (Delimiter '/'): each is the
\* prefix, one segment without a slash, and the delimiter.
CommonPrefixes(b, prefix) ==
    LET idx == [i \in 1..Len(FolderSegments) |-> i]
        Present(i) == i \in b.folders
        kept == SelectSeq(idx, Present)
    IN  [j \in 1..Len(kept) |-> [Prefix |-> prefix \o FolderSegments[kept[j]] \o Slash]]

(***************************************************************************)
(* listObjectsPaginated                                                    *)
(***************************************************************************)
ItemsPerPageCap == 50
DefaultItemsPerPage == 10
DefaultPage == 1

\* A number field left out of the request (zod then applies the default).
Omitted == -1

\* z.number().int().positive().default(1), on the integers the model sends
PageOk(n) == n = Omitted \/ n > 0
\* z.number().int().positive().max(50).default(10)
ItemsPerPageOk(n) == n = Omitted \/ (n > 0 /\ n <= ItemsPerPageCap)

\* paginatedListSchema.parse(input) succeeds
paginatedListSchemaOk(input) ==
    /\ PageOk(input.foldersPage)
    /\ PageOk(input.filesPage)
    /\ ItemsPerPageOk(input.itemsPerPage)

\* paginatedListSchema.parse(input): the data handed to the handler
paginatedListSchemaParse(input) ==
    [prefix |-> input.prefix,
     foldersPage |-> IF input.foldersPage = Omitted THEN DefaultPage
                     ELSE input.foldersPage,
     filesPage |-> IF input.filesPage = Omitted THEN DefaultPage
                   ELSE input.filesPage,
     itemsPerPage |-> IF input.itemsPerPage = Omitted THEN DefaultItemsPerPage
                      ELSE input.itemsPerPage]

\* safeMapObjects: entries without a Key are dropped; LastModified becomes an
\* ISO string, or stays undefined.
safeMapObjects(objects) ==
    LET HasKey(o) == o.Key # Undefined /\ o.Key # <<>>
        kept == SelectSeq(objects, HasKey)
    IN  [j \in 1..Len(kept) |->
            [key |-> kept[j].Key,
             size |-> kept[j].Size,
             lastModified |-> IF kept[j].dated
                                THEN toISOString(kept[j].LastModified)
                                ELSE Undefined]]

\* !x.lastModified
NoDate(x) == x.lastModified = Undefined \/ x.lastModified = <<>>

\* A comparator that puts the earlier timestamp first.
CompareObjectsOldestFirst(a, b) ==
    IF NoDate(a) /\ NoDate(b) THEN 0
    ELSE IF NoDate(a) THEN 1
    ELSE IF NoDate(b) THEN -1
    ELSE IF StrGreater(a.lastModified, b.lastModified) THEN 1 ELSE -1

\* The comparator of allObjects.sort
CompareObjects(a, b) ==
    IF NoDate(a) /\ NoDate(b) THEN 0
    ELSE IF NoDate(a) THEN 1
    ELSE IF NoDate(b) THEN -1
    ELSE IF StrGreater(a.lastModified, b.lastModified) THEN -1 ELSE 1

\* a.localeCompare(b) on the names of the model (lower-case letters): by
\* character, a proper prefix first.
localeCompare(a, b) ==
    IF a = b THEN 0 ELSE IF StrGreater(a, b) THEN 1 ELSE -1

\* The comparator of allFolders.sort
CompareFolders(a, b) == localeCompare(a.name, b.name)

\* The comparator handed to sort: `which` names the list being sorted.
Compare(which, a, b) ==
    IF which = "objects" THEN CompareObjects(a, b) ELSE CompareFolders(a, b)

\* Array.prototype.sort on a short array: a stable insertion sort. A
\* comparator that answers 1 both ways round for two equal timestamps is not
\* consistent, and where x lands among its equals then depends on the order in
\* which the engine passes the two arguments: `eng` is that order.
MovesBefore(x, y, eng, which) ==
    IF eng = "xy" THEN Compare(which, x, y) < 0 ELSE Compare(which, y, x) > 0

InsertSorted(sorted, x, eng, which) ==
    LET stops == { j \in 1..Len(sorted) : ~MovesBefore(x, sorted[j], eng, which) }
        at == IF stops = {} THEN 0 ELSE CHOOSE j \in stops : \A k \in stops : k <= j
    IN  SubSeq(sorted, 1, at) \o <<x>> \o SubSeq(sorted, at + 1, Len(sorted))

Sort(s, eng, which) ==
    LET upTo[n \in 0..Len(s)] ==
            IF n = 0 THEN <<>> ELSE InsertSorted(upTo[n - 1], s[n], eng, which)
    IN  upTo[Len(s)]

\* allObjects
AllObjects(response, eng) == Sort(safeMapObjects(response.Contents), eng, "objects")

\* entry.Prefix?.replace(prefix, '') ?? ''
StrippedName(entry, prefix) ==
    IF entry.Prefix = Undefined THEN <<>> ELSE ReplaceFirst(entry.Prefix, prefix)

\* Boolean(name) && name !== prefix
KeepFolder(name, prefix) == name # <<>> /\ name # prefix

\* { name: name.replace(/\/$/, ''), prefix: `${prefix}${name}` }
FolderEntry(name, prefix) ==
    [name |-> StripTrailingSlash(name), prefix |-> prefix \o name]

\* allFolders
AllFolders(response, prefix, eng) ==
    LET names == [i \in 1..Len(response.CommonPrefixes) |->
                    StrippedName(response.CommonPrefixes[i], prefix)]
        Keep(name) == KeepFolder(name, prefix)
        kept == SelectSeq(names, Keep)
        entries == [i \in 1..Len(kept) |-> FolderEntry(kept[i], prefix)]
    IN  Sort(entries, eng, "folders")

\* Pages counted from 0.
StartIndexFromZero(page, itemsPerPage) == page * itemsPerPage

StartIndex(page, itemsPerPage) == (page - 1) * itemsPerPage

\* An end index taken as inclusive.
EndIndexInclusive(page, itemsPerPage) ==
    StartIndex(page, itemsPerPage) + itemsPerPage + 1

EndIndex(page, itemsPerPage) == StartIndex(page, itemsPerPage) + itemsPerPage

\* A page number clamped to the last page.
PaginateClamped(all, page, itemsPerPage) ==
    LET last == Max(1, Ceil(Len(all), itemsPerPage))
    IN  Slice(all, StartIndex(Min(page, last), itemsPerPage),
              EndIndex(Min(page, last), itemsPerPage))

\* The slice of one list for one page
Paginate(all, page, itemsPerPage) ==
    Slice(all, StartIndex(page, itemsPerPage), EndIndex(page, itemsPerPage))

\* Math.floor in place of Math.ceil.
TotalPagesFloor(all, itemsPerPage) == Len(all) \div itemsPerPage

TotalPages(all, itemsPerPage) == Ceil(Len(all), itemsPerPage)

\* One of the two pagination records of the result
PageMeta(all, page, itemsPerPage) ==
    [currentPage |-> page,
     totalPages |-> TotalPages(all, itemsPerPage),
     totalItems |-> Len(all),
     itemsPerPage |-> itemsPerPage,
     hasNextPage |-> page < TotalPages(all, itemsPerPage),
     hasPrevPage |-> page > 1]

\* The storage's answer to the one list call of the handler
ListObjectsV2(b, prefix) ==
    [Contents |-> Contents(b, prefix),
     CommonPrefixes |-> CommonPrefixes(b, prefix),
     IsTruncated |-> FALSE]

\* A handler that cuts both lists at the files page.
HandlerOfOnePage(response, prefix, eng, data) ==
    LET allObjects == AllObjects(response, eng)
        allFolders == AllFolders(response, prefix, eng)
    IN  [status |-> "ok",
         prefix |-> prefix,
         objects |-> Paginate(allObjects, data.filesPage, data.itemsPerPage),
         folders |-> Paginate(allFolders, data.filesPage, data.itemsPerPage),
         pagination |->
            [folders |-> PageMeta(allFolders, data.filesPage, data.itemsPerPage),
             files |-> PageMeta(allObjects, data.filesPage, data.itemsPerPage)],
         isTruncated |-> response.IsTruncated]

\* The handler of listObjectsPaginated from the storage's answer on: sorting,
\* slicing, the result.
HandlerOf(response, prefix, eng, data) ==
    LET allObjects == AllObjects(response, eng)
        allFolders == AllFolders(response, prefix, eng)
    IN  [status |-> "ok",
         prefix |-> prefix,
         objects |-> Paginate(allObjects, data.filesPage, data.itemsPerPage),
         folders |-> Paginate(allFolders, data.foldersPage, data.itemsPerPage),
         pagination |->
            [folders |-> PageMeta(allFolders, data.foldersPage, data.itemsPerPage),
             files |-> PageMeta(allObjects, data.filesPage, data.itemsPerPage)],
         isTruncated |-> response.IsTruncated]

\* The handler of listObjectsPaginated on validated data
Handler(b, eng, data) ==
    LET prefix == normalizePrefix(data.prefix)
    IN  HandlerOf(ListObjectsV2(b, prefix), prefix, eng, data)

\* A call that the input validator refuses: the handler never runs.
Rejected == [status |-> "rejected"]
\* Before the call
NotCalled == [status |-> "none"]
NoRequest == [prefix |-> Undefined, foldersPage |-> Omitted, filesPage |-> Omitted,
              itemsPerPage |-> Omitted, sent |-> FALSE]

\* listObjectsPaginated({ data: input })
ListObjectsPaginatedResult(b, eng, input) ==
    IF paginatedListSchemaOk(input)
      THEN Handler(b, eng, paginatedListSchemaParse(input))
      ELSE Rejected

PrefixInputs == {Undefined, <<"/", "d">>}

\* Requests the schema accepts
ValidInputs ==
    [prefix : PrefixInputs, foldersPage : 1..MaxPage, filesPage : 1..MaxPage,
     itemsPerPage : 1..MaxItemsPerPage]

\* A request that leaves every field to its default, and requests the schema
\* refuses: page 0, page size 0, page size above the cap.
EdgeInputs ==
    { [prefix |-> Undefined, foldersPage |-> fp, filesPage |-> lp, itemsPerPage |-> n] :
        <<fp, lp, n>> \in { <<Omitted, Omitted, Omitted>>, <<0, 1, 1>>, <<1, 0, 1>>,
                            <<1, 1, 0>>, <<1, 1, ItemsPerPageCap + 1>> } }

ListInputs == ValidInputs \cup EdgeInputs

InitList ==
    /\ bucket \in Buckets
    /\ engine \in {"xy", "yx"}
    /\ request = NoRequest
    /\ result = NotCalled

\* One request: validation, the list call, sorting and slicing.
ListObjectsPaginated(input) ==
    /\ result = NotCalled
    /\ request' = [prefix |-> input.prefix, foldersPage |-> input.foldersPage,
                   filesPage |-> input.filesPage, itemsPerPage |-> input.itemsPerPage,
                   sent |-> TRUE]
    /\ result' = ListObjectsPaginatedResult(bucket, engine, input)
    /\ UNCHANGED <<bucket, engine>>
    /\ UNCHANGED <<accessVars, serverVars, pageVars, searchVars>>

NextList == \E input \in ListInputs : ListObjectsPaginated(input)

(***************************************************************************)
(* Module load of s3.server.ts: the environment                            *)
(***************************************************************************)
Settings == {"S3_ENDPOINT", "S3_REGION", "S3_ACCESS_KEY", "S3_SECRET_KEY", "S3_BUCKET"}

\* A variable process.env does not hold
Unset == "unset"

\* What process.env may hold for a setting: nothing, the empty string, a text
\* that is not a URL, a URL.
EnvValues == {Unset, "", "text", "https://s3.example.net"}
\* Only the endpoint is read as a URL; elsewhere a URL is a text like any other.
ProcessEnvs ==
    { pe \in [Settings -> EnvValues] :
        \A s \in Settings \ {"S3_ENDPOINT"} : pe[s] # "https://s3.example.net" }

\* The literal on the right of `process.env.X || "..."`
Fallback(s) ==
    CASE s = "S3_ENDPOINT" -> "https://s3.gra.io.cloud.ovh.net"
      [] s = "S3_REGION" -> "gra"
      [] s = "S3_ACCESS_KEY" -> "xxxxx"
      [] s = "S3_SECRET_KEY" -> "xxxxx"
      [] s = "S3_BUCKET" -> "xxxx-bucket"

\* The object handed to envSchema.parse: `||` replaces undefined and ''.
EnvInput(pe) ==
    [s \in Settings |-> IF pe[s] = Unset \/ pe[s] = "" THEN Fallback(s) ELSE pe[s]]

\* z.string().url()
IsUrl(v) == v \in {"https://s3.example.net", "https://s3.gra.io.cloud.ovh.net"}
\* z.string().min(1)
MinOne(v) == v # Unset /\ v # ""

\* envSchema.parse(input) succeeds
envSchemaOk(input) ==
    /\ IsUrl(input["S3_ENDPOINT"])
    /\ \A s \in Settings \ {"S3_ENDPOINT"} : MinOne(input[s])

\* `env`, once the module is loaded
Env == EnvInput(processEnv)

\* An environment with the five settings in place
GoodEnv ==
    [s \in Settings |-> IF s = "S3_ENDPOINT" THEN "https://s3.example.net" ELSE "text"]

\* The module is loaded: envSchema.parse runs once; if it throws, the module
\* fails to load and none of its server functions exists.
Start ==
    /\ server = "starting"
    /\ server' = IF envSchemaOk(EnvInput(processEnv)) THEN "up" ELSE "failed"
    /\ UNCHANGED <<processEnv, call, ops, reply>>
    /\ UNCHANGED <<accessVars, listVars, pageVars, searchVars>>

(***************************************************************************)
(* One call of a server function, step by step: the input validator, the   *)
(* commands handed to the S3 client, the value returned or the error       *)
(* thrown.                                                                 *)
(***************************************************************************)
MaxKeys == 1000
ExpiresIn == 300

NoCall == [fn |-> "none", pc |-> "idle"]
NoReply == [status |-> "none"]

\* A number of a request: a whole number, or that number and a half.
Whole(n) == [whole |-> n, half |-> FALSE]
AndAHalf(n) == [whole |-> n, half |-> TRUE]

\* .int()
IsInt(x) == ~x.half

\* The request with each number cut to its whole part
WholePart(raw) ==
    [prefix |-> raw.prefix, foldersPage |-> raw.foldersPage.whole,
     filesPage |-> raw.filesPage.whole, itemsPerPage |-> raw.itemsPerPage.whole]

\* paginatedListSchema.parse(raw) succeeds, on numbers that need not be integers
paginatedListSchemaAccepts(raw) ==
    /\ IsInt(raw.foldersPage) /\ IsInt(raw.filesPage) /\ IsInt(raw.itemsPerPage)
    /\ paginatedListSchemaOk(WholePart(raw))

\* A server function without an input validator: the handler always runs.
inputValidatorLeftOut(accepted) == "handler"

\* .inputValidator(schema.parse): the handler runs on what parse returned;
\* when parse throws, the call ends there.
inputValidator(accepted) == IF accepted THEN "handler" ELSE "thrown"

\* What a failed s3.send throws, by kind of failure. A HEAD answer has no body,
\* so the client finds no message in it.
StorageFailures == {"NotFound", "Forbidden", "Network"}
HeadError(kind) ==
    CASE kind = "NotFound" ->
            [isError |-> TRUE, name |-> "NotFound", message |-> "UnknownError"]
      [] kind = "Forbidden" ->
            [isError |-> TRUE, name |-> "403", message |-> "UnknownError"]
      [] kind = "Network" ->
            [isError |-> TRUE, name |-> "TimeoutError", message |-> "socket hang up"]
ListError(kind) ==
    CASE kind = "Forbidden" ->
            [isError |-> TRUE, name |-> "AccessDenied", message |-> "Access Denied."]
      [] kind = "Network" ->
            [isError |-> TRUE, name |-> "TimeoutError", message |-> "socket hang up"]

ValidationError == [isError |-> TRUE, name |-> "ZodError", message |-> "invalid input"]

\* A handler that answers a failed list call with an empty page.
EmptyPageOnFailure(error) ==
    [status |-> "ok", prefix |-> <<>>, objects |-> <<>>, folders |-> <<>>]

\* An awaited call rejects inside a handler that has no try/catch: the server
\* function rejects with that error.
Throw(error) == [status |-> "error", error |-> error]

\* A list command that follows a continuation token.
ListObjectsV2CommandContinued(prefix) ==
    [command |-> "ListObjectsV2",
     Bucket |-> Env["S3_BUCKET"],
     Prefix |-> IF prefix = <<>> THEN Undefined ELSE prefix,
     Delimiter |-> "/",
     MaxKeys |-> MaxKeys,
     ContinuationToken |-> <<"t">>]

\* new ListObjectsV2Command({ Bucket, Prefix: prefix || undefined, Delimiter, MaxKeys })
ListObjectsV2Command(prefix) ==
    [command |-> "ListObjectsV2",
     Bucket |-> Env["S3_BUCKET"],
     Prefix |-> IF prefix = <<>> THEN Undefined ELSE prefix,
     Delimiter |-> "/",
     MaxKeys |-> MaxKeys,
     ContinuationToken |-> Undefined]

\* The list without its last entry
AllButLast(s) == SubSeq(s, 1, Len(s) - 1)

\* A truncated answer to the list call: the storage holds more than it
\* returns. The entries past the cut are withheld; the model withholds the
\* last file and the last sub-prefix.
ListObjectsV2Truncated(b, prefix) ==
    [Contents |-> AllButLast(Contents(b, prefix)),
     CommonPrefixes |-> AllButLast(CommonPrefixes(b, prefix)),
     IsTruncated |-> TRUE]

\* Requests of the step-by-step listing: those of ListInputs, and requests
\* with a number that is not an integer.
ServerListInputs ==
    { [prefix |-> i.prefix, foldersPage |-> Whole(i.foldersPage),
       filesPage |-> Whole(i.filesPage), itemsPerPage |-> Whole(i.itemsPerPage)] :
        i \in ListInputs }
    \cup
    { [prefix |-> Undefined, foldersPage |-> fp, filesPage |-> lp, itemsPerPage |-> n] :
        <<fp, lp, n>> \in { <<AndAHalf(1), Whole(1), Whole(1)>>,
                            <<Whole(1), AndAHalf(1), Whole(1)>>,
                            <<Whole(1), Whole(1), AndAHalf(1)>> } }

\* listObjectsPaginated({ data: raw }) arrives: the validator runs.
CallListObjectsPaginated(raw) ==
    /\ server = "up"
    /\ call.pc = "idle"
    /\ LET to == inputValidator(paginatedListSchemaAccepts(raw))
       IN  /\ call' = [fn |-> "listObjectsPaginated", pc |-> to, raw |-> raw,
                       data |-> paginatedListSchemaParse(WholePart(raw))]
           /\ reply' = IF to = "thrown" THEN Throw(ValidationError) ELSE reply
    /\ UNCHANGED <<processEnv, server, ops>>
    /\ UNCHANGED <<accessVars, listVars, pageVars, searchVars>>

\* The handler hands its one command to the client and awaits the answer.
SendList ==
    /\ call.fn = "listObjectsPaginated"
    /\ call.pc = "handler"
    /\ ops' = Append(ops, ListObjectsV2Command(normalizePrefix(call.data.prefix)))
    /\ call' = [call EXCEPT !.pc = "listing"]
    /\ UNCHANGED <<processEnv, server, reply>>
    /\ UNCHANGED <<accessVars, listVars, pageVars, searchVars>>

\* The storage answers, with all the children of the prefix or truncated; the
\* handler sorts, slices and returns.
ListAnswered(truncated) ==
    /\ call.fn = "listObjectsPaginated"
    /\ call.pc = "listing"
    /\ LET prefix == normalizePrefix(call.data.prefix)
           whole == ListObjectsV2(bucket, prefix)
           response == IF truncated THEN ListObjectsV2Truncated(bucket, prefix)
                       ELSE whole
       IN  /\ truncated => Len(whole.Contents) + Len(whole.CommonPrefixes) > 0
           /\ reply' = HandlerOf(response, prefix, engine, call.data)
           /\ call' = [fn |-> call.fn, pc |-> "returned", raw |-> call.raw,
                       data |-> call.data, response |-> response]
    /\ UNCHANGED <<processEnv, server, ops>>
    /\ UNCHANGED <<accessVars, listVars, pageVars, searchVars>>

\* The list call fails: the await throws.
ListFailed(kind) ==
    /\ call.fn = "listObjectsPaginated"
    /\ call.pc = "listing"
    /\ reply' = Throw(ListError(kind))
    /\ call' = [call EXCEPT !.pc = "thrown"]
    /\ UNCHANGED <<processEnv, server, ops>>
    /\ UNCHANGED <<accessVars, listVars, pageVars, searchVars>>

\* Keys of getObjectAccess requests: none, the empty key, two file names.
AccessKeyInputs == {Undefined, <<>>, <<"a">>, <<"b">>}
\* Dispositions of getObjectAccess requests: left out, the two of the enum, another
DispositionInputs == {Null, "inline", "attachment", "download"}
AccessInputs == [key : AccessKeyInputs, disposition : DispositionInputs]

\* Content types the storage has on record for an object (Null: none)
ContentTypes == {Null, "text/plain"}

\* objectAccessSchema.parse(raw) succeeds
objectAccessSchemaOk(raw) ==
    /\ raw.key # Undefined /\ Len(raw.key) >= 1
    /\ raw.disposition \in {Null} \cup Dispositions

\* objectAccessSchema.parse(raw): the data handed to the handler
objectAccessSchemaParse(raw) ==
    [key |-> raw.key,
     disposition |-> IF raw.disposition = Null THEN "inline" ELSE raw.disposition]

\* The stored file a key names, 0 if there is none. Files sit at the root.
FileAt(b, k) ==
    IF \E i \in 1..MaxFiles : b.files[i].present /\ k = <<NameChars[i]>>
      THEN CHOOSE i \in 1..MaxFiles : b.files[i].present /\ k = <<NameChars[i]>>
      ELSE 0

\* new HeadObjectCommand({ Bucket, Key })
HeadObjectCommand(data) ==
    [command |-> "HeadObject", Bucket |-> Env["S3_BUCKET"], Key |-> data.key]

\* The storage's answer to HeadObject for the stored file i
HeadObjectOutput(b, i, contentType) ==
    [ContentType |-> contentType,
     ContentLength |-> i,
     dated |-> b.files[i].dated,
     LastModified |-> b.files[i].at]

\* A presign that asks for inline whatever the request says.
GetObjectCommandInline(data, head) ==
    [command |-> "GetObject", Bucket |-> Env["S3_BUCKET"], Key |-> data.key,
     ResponseContentDisposition |-> "inline",
     ResponseContentType |-> head.ContentType]

\* new GetObjectCommand({ Bucket, Key, ResponseContentDisposition, ResponseContentType })
GetObjectCommand(data, head) ==
    [command |-> "GetObject", Bucket |-> Env["S3_BUCKET"], Key |-> data.key,
     ResponseContentDisposition |->
        IF data.disposition = "attachment" THEN "attachment" ELSE "inline",
     ResponseContentType |-> head.ContentType]

\* getSignedUrl(s3, command, { expiresIn }): the URL, by what it was signed for
getSignedUrl(command, expiresIn) == [signs |-> command, expiresIn |-> expiresIn]

\* The value getObjectAccess returns
AccessResult(data, head, signedUrl) ==
    [status |-> "ok",
     key |-> data.key,
     signedUrl |-> signedUrl,
     contentType |-> IF head.ContentType = Null THEN "application/octet-stream"
                     ELSE head.ContentType,
     contentLength |-> head.ContentLength,
     lastModified |-> IF head.dated THEN toISOString(head.LastModified) ELSE Undefined]

\* getObjectAccess({ data: raw }) arrives: the validator runs.
CallGetObjectAccess(raw) ==
    /\ server = "up"
    /\ call.pc = "idle"
    /\ LET to == inputValidator(objectAccessSchemaOk(raw))
       IN  /\ call' = [fn |-> "getObjectAccess", pc |-> to, raw |-> raw,
                       data |-> objectAccessSchemaParse(raw)]
           /\ reply' = IF to = "thrown" THEN Throw(ValidationError) ELSE reply
    /\ UNCHANGED <<processEnv, server, ops>>
    /\ UNCHANGED <<accessVars, listVars, pageVars, searchVars>>

\* The handler sends HeadObject and awaits the answer.
SendHead ==
    /\ call.fn = "getObjectAccess"
    /\ call.pc = "handler"
    /\ ops' = Append(ops, HeadObjectCommand(call.data))
    /\ call' = [call EXCEPT !.pc = "heading"]
    /\ UNCHANGED <<processEnv, server, reply>>
    /\ UNCHANGED <<accessVars, listVars, pageVars, searchVars>>

\* The object exists and the storage answers with its metadata.
HeadAnswered(contentType) ==
    /\ call.fn = "getObjectAccess"
    /\ call.pc = "heading"
    /\ FileAt(bucket, call.data.key) # 0
    /\ call' = [fn |-> call.fn, pc |-> "presigning", raw |-> call.raw, data |-> call.data,
                head |-> HeadObjectOutput(bucket, FileAt(bucket, call.data.key),
                                          contentType)]
    /\ UNCHANGED <<processEnv, server, ops, reply>>
    /\ UNCHANGED <<accessVars, listVars, pageVars, searchVars>>

\* HeadObject fails: no such object, or the storage refuses or cannot be
\* reached (whether or not the object exists). The await throws.
HeadFailed(kind) ==
    /\ call.fn = "getObjectAccess"
    /\ call.pc = "heading"
    /\ kind = "NotFound" => FileAt(bucket, call.data.key) = 0
    /\ reply' = Throw(HeadError(kind))
    /\ call' = [fn |-> call.fn, pc |-> "thrown", raw |-> call.raw, data |-> call.data,
                failure |-> kind]
    /\ UNCHANGED <<processEnv, server, ops>>
    /\ UNCHANGED <<accessVars, listVars, pageVars, searchVars>>

\* The handler signs the GetObject command and returns.
Presign ==
    /\ call.fn = "getObjectAccess"
    /\ call.pc = "presigning"
    /\ LET command == GetObjectCommand(call.data, call.head)
       IN  /\ ops' = Append(ops, [command |-> "presign", signs |-> command,
                                  expiresIn |-> ExpiresIn])
           /\ reply' = AccessResult(call.data, call.head,
                                    getSignedUrl(command, ExpiresIn))
    /\ call' = [call EXCEPT !.pc = "returned"]
    /\ UNCHANGED <<processEnv, server>>
    /\ UNCHANGED <<accessVars, listVars, pageVars, searchVars>>

NextServer ==
    \/ \E raw \in ServerListInputs : CallListObjectsPaginated(raw)
    \/ SendList
    \/ \E truncated \in BOOLEAN : ListAnswered(truncated)
    \/ \E kind \in {"Forbidden", "Network"} : ListFailed(kind)
    \/ \E raw \in AccessInputs : CallGetObjectAccess(raw)
    \/ SendHead
    \/ \E contentType \in ContentTypes : HeadAnswered(contentType)
    \/ \E kind \in StorageFailures : HeadFailed(kind)
    \/ Presign

NextStartup == Start \/ NextServer

(***************************************************************************)
(* ExplorerPage: the selected file and the download indicator              *)
(***************************************************************************)
\* Files one page of a listing may show
MaxObjects == 2
\* handleDownload calls that may be awaiting at once
MaxDownloads == 2

PageKeys == {"A", "B", "C"}

\* data.objects, by key: at most MaxObjects files, no key twice
Pages ==
    { p \in UNION { [1..n -> PageKeys] : n \in 0..MaxObjects } :
        \A i, j \in 1..Len(p) : p[i] = p[j] => i = j }

\* data.objects[0]?.key ?? null
FirstKey(page) == IF Len(page) = 0 THEN Null ELSE page[1]

\* data.objects.some((object) => object.key === k)
OnPage(page, k) == \E i \in 1..Len(page) : page[i] = k

\* The key the access hook last ran its effect for
HookKey(s) == IF s.status = "idle" THEN Null ELSE s.key

\* A selection effect that keeps whatever is selected.
SelectionEffectKeeps(page, selected) == selected

\* The selection effect: the selected key stays if it is on the page, else it
\* becomes the first file of the page, or null on an empty page.
SelectionEffect(page, selected) ==
    IF selected # Null /\ OnPage(page, selected) THEN selected ELSE FirstKey(page)

\* The component mounts: useState initialisers have run, no effect has.
InitPage ==
    /\ dataObjects \in Pages
    /\ selectedKey = FirstKey(dataObjects)
    /\ effectPending = TRUE
    /\ accessState = Idle
    /\ downloadKey = Null
    /\ downloads = [k \in PageKeys |-> 0]

\* onClick={() => setSelectedKey(object.key)} on a file of the page
FileClick(k) ==
    /\ OnPage(dataObjects, k)
    /\ selectedKey' = k
    /\ effectPending' = (effectPending \/ k # selectedKey)
    /\ UNCHANGED <<dataObjects, accessState, downloadKey, downloads>>
    /\ UNCHANGED <<accessVars, listVars, serverVars, searchVars>>

\* The loader delivers a listing again (navigation, router.invalidate()):
\* data.objects is a new array.
Reload(page) ==
    /\ dataObjects' = page
    /\ effectPending' = TRUE
    /\ UNCHANGED <<selectedKey, accessState, downloadKey, downloads>>
    /\ UNCHANGED <<accessVars, listVars, serverVars, searchVars>>

\* The effects of the committed render run, in the order of their
\* declaration: the effect of useObjectAccess(selectedKey), when selectedKey is
\* not the key it last ran for, then the selection effect. A setSelectedKey
\* that changes the state renders again, and the effects are due once more.
RunEffects ==
    /\ effectPending
    /\ accessState' = IF HookKey(accessState) = selectedKey THEN accessState
                      ELSE IF Falsy(selectedKey) THEN Idle
                      ELSE Loading(selectedKey)
    /\ selectedKey' = SelectionEffect(dataObjects, selectedKey)
    /\ effectPending' = (selectedKey' # selectedKey)
    /\ UNCHANGED <<dataObjects, downloadKey, downloads>>
    /\ UNCHANGED <<accessVars, listVars, serverVars, searchVars>>

\* The fetch of the hook's current key settles: .then or .catch sets the state.
AccessSettles(ok) ==
    /\ accessState.status = "loading"
    /\ accessState' = IF ok THEN Success(accessState.key,
                                         ObjectAccess(accessState.key, "inline"))
                      ELSE Failure(accessState.key, DefaultMessage)
    /\ UNCHANGED <<dataObjects, selectedKey, effectPending, downloadKey, downloads>>
    /\ UNCHANGED <<accessVars, listVars, serverVars, searchVars>>

\* The download button of the detail panel is clicked: handleDownload(key)
\* runs up to its await. The button shows for a successful access and is
\* disabled while downloadKey is that key.
HandleDownload(k) ==
    /\ accessState.status = "success"
    /\ accessState.data.key = k
    /\ downloadKey # k
    /\ downloads[k] < MaxDownloads
    /\ downloadKey' = k
    /\ downloads' = [downloads EXCEPT ![k] = @ + 1]
    /\ UNCHANGED <<dataObjects, selectedKey, effectPending, accessState>>
    /\ UNCHANGED <<accessVars, listVars, serverVars, searchVars>>

\* The getObjectAccess call of one handleDownload(k) settles: the try block
\* ends or the catch block runs, then finally { setDownloadKey(null) }.
DownloadSettles(k) ==
    /\ downloads[k] > 0
    /\ downloads' = [downloads EXCEPT ![k] = @ - 1]
    /\ downloadKey' = Null
    /\ UNCHANGED <<dataObjects, selectedKey, effectPending, accessState>>
    /\ UNCHANGED <<accessVars, listVars, serverVars, searchVars>>

NextPage ==
    \/ \E k \in PageKeys : FileClick(k)
    \/ \E page \in Pages : Reload(page)
    \/ RunEffects
    \/ \E ok \in BOOLEAN : AccessSettles(ok)
    \/ \E k \in PageKeys : HandleDownload(k)
    \/ \E k \in PageKeys : DownloadSettles(k)

(***************************************************************************)
(* ExplorerPage: the URL search state and the handlers that navigate       *)
(***************************************************************************)
\* Prefixes a folder row or a breadcrumb carries: undefined (the root
\* breadcrumb), "d/", "d/a/"
FolderPrefixes == {Undefined, <<"d", "/">>, <<"d", "/", "a", "/">>}

\* What the search form's input may hold when it is submitted
FormValues == {<<>>, <<" ">>, <<"d">>, <<" ", "d", "/", " ">>}

\* ' '.charCodeAt(0) is white space; the letters and the slash are not.
IsSpace(c) == c = " "

\* value.trim()
Trim(s) ==
    LET inner == { i \in 1..Len(s) : ~IsSpace(s[i]) }
    IN  IF inner = {} THEN <<>>
        ELSE SubSeq(s, CHOOSE i \in inner : \A j \in inner : i <= j,
                       CHOOSE i \in inner : \A j \in inner : j <= i)

\* value.trim() || undefined
TrimOrUndefined(value) == IF Trim(value) = <<>> THEN Undefined ELSE Trim(value)

\* searchSchema.parse(s), on a search object whose numbers are positive
\* integers or left out: the defaults fill what is left out.
searchSchemaParse(s) ==
    [prefix |-> s.prefix,
     foldersPage |-> IF s.foldersPage = Omitted THEN DefaultPage ELSE s.foldersPage,
     filesPage |-> IF s.filesPage = Omitted THEN DefaultPage ELSE s.filesPage,
     itemsPerPage |-> IF s.itemsPerPage = Omitted THEN DefaultItemsPerPage
                      ELSE s.itemsPerPage]

\* A prefix change that keeps the page numbers.
ToPrefixKeepingPages(prev, prefix) == [prev EXCEPT !.prefix = prefix]

\* (prev) => ({ ...prev, prefix, foldersPage: 1, filesPage: 1 })
ToPrefix(prev, prefix) ==
    [prev EXCEPT !.prefix = prefix, !.foldersPage = 1, !.filesPage = 1]

\* (prev) => ({ ...prev, foldersPage: page })
ToFoldersPage(prev, page) == [prev EXCEPT !.foldersPage = page]

\* (prev) => ({ ...prev, filesPage: page })
ToFilesPage(prev, page) == [prev EXCEPT !.filesPage = page]

\* The record of a navigate call made by `handler` on the search `prev`
Navigated(handler, prev) == [handler |-> handler, prev |-> prev]

\* The URL the page is opened with, once validated: any prefix, page numbers
\* and page size, or nothing at all.
SearchInputs ==
    [prefix : FolderPrefixes,
     foldersPage : 1..MaxPage, filesPage : 1..MaxPage,
     itemsPerPage : 1..MaxItemsPerPage]
    \cup {[prefix |-> Undefined, foldersPage |-> Omitted, filesPage |-> Omitted,
            itemsPerPage |-> Omitted]}

NoNavigation == [handler |-> "none"]

InitSearch ==
    /\ search \in { searchSchemaParse(s) : s \in SearchInputs }
    /\ navigation = NoNavigation

\* Each handler calls navigate({ search: updater }): the router applies the
\* updater to the current search and validates the outcome (validateSearch).

\* The search form is submitted.
handleSearch(value) ==
    /\ search' = searchSchemaParse(ToPrefix(search, TrimOrUndefined(value)))
    /\ navigation' = Navigated("handleSearch", search)
    /\ UNCHANGED <<accessVars, listVars, serverVars, pageVars>>

\* A folder row is clicked.
handleFolderSelect(prefix) ==
    /\ prefix # Undefined
    /\ search' = searchSchemaParse(ToPrefix(search, prefix))
    /\ navigation' = Navigated("handleFolderSelect", search)
    /\ UNCHANGED <<accessVars, listVars, serverVars, pageVars>>

\* A breadcrumb is clicked; the root breadcrumb passes no prefix.
handleBreadcrumbSelect(prefix) ==
    /\ search' = searchSchemaParse(ToPrefix(search, prefix))
    /\ navigation' = Navigated("handleBreadcrumbSelect", search)
    /\ UNCHANGED <<accessVars, listVars, serverVars, pageVars>>

\* A button of the folders pagination is clicked.
handleFoldersPageChange(page) ==
    /\ search' = searchSchemaParse(ToFoldersPage(search, page))
    /\ navigation' = Navigated("handleFoldersPageChange", search)
    /\ UNCHANGED <<accessVars, listVars, serverVars, pageVars>>

\* A button of the files pagination is clicked.
handleFilesPageChange(page) ==
    /\ search' = searchSchemaParse(ToFilesPage(search, page))
    /\ navigation' = Navigated("handleFilesPageChange", search)
    /\ UNCHANGED <<accessVars, listVars, serverVars, pageVars>>

NextSearch ==
    \/ \E value \in FormValues : handleSearch(value)
    \/ \E prefix \in FolderPrefixes : handleFolderSelect(prefix)
    \/ \E prefix \in FolderPrefixes : handleBreadcrumbSelect(prefix)
    \/ \E page \in 1..MaxPage : handleFoldersPageChange(page)
    \/ \E page \in 1..MaxPage : handleFilesPageChange(page)

(***************************************************************************)
(* normalizePrefix on its own                                              *)
(***************************************************************************)
\* Longest prefix text handed to normalizePrefix
MaxPrefixLen == 6

\* The prefix argument: undefined, or any text of slashes and a letter.
PrefixTexts ==
    {Undefined} \cup UNION { [1..n -> {"/", "d"}] : n \in 0..MaxPrefixLen }

InitPrefix ==
    /\ request \in { [NoRequest EXCEPT !.prefix = p] : p \in PrefixTexts }
    /\ result = NotCalled
    /\ bucket = [files |-> [i \in 1..MaxFiles |->
                              [present |-> FALSE, dated |-> FALSE, at |-> 0]],
                 folders |-> {}]
    /\ engine = "xy"

\* const prefix = normalizePrefix(data.prefix)
NormalizePrefix ==
    /\ result = NotCalled
    /\ result' = [status |-> "normalized", prefix |-> normalizePrefix(request.prefix)]
    /\ request' = [request EXCEPT !.sent = TRUE]
    /\ UNCHANGED <<bucket, engine>>
    /\ UNCHANGED <<accessVars, serverVars, pageVars, searchVars>>

NextPrefix == NormalizePrefix

(***************************************************************************)
(* Claims about useObjectAccess, under SpecAccess                          *)
(***************************************************************************)
\* The fetch started by the latest run of the effect that did not return early.
Latest == fetches[Len(fetches)]

\* C1: last selection wins. Whenever the status is loading, success or error,
\* state.key is the most recently selected key; a loading state waits for the
\* fetch of the latest selection, and a success or error state shows the
\* outcome of that fetch (success with the data fetched for the selected key
\* and disposition), never the outcome of a fetch started for an earlier
\* selection.
C1_LastSelectionWins ==
    /\ state.status \in {"loading", "success", "error"} =>
          /\ state.key = key
          /\ Len(fetches) > 0
          /\ Latest.key = key /\ Latest.disposition = disposition
          /\ ~Latest.aborted
    /\ state.status = "loading" => Latest.outcome = "pending"
    /\ state.status = "success" =>
          /\ Latest.outcome = "fulfilled"
          /\ state.data = ObjectAccess(key, disposition)
    /\ state.status = "error" => Latest.outcome = "rejected"

\* A fetch for another key was fulfilled after a later selection (its callback
\* returned at the aborted check) while the later selection is still loading.
C1_Witness ==
    /\ state.status = "loading"
    /\ \E i \in 1..Len(fetches) :
          /\ fetches[i].dropped
          /\ fetches[i].outcome = "fulfilled"
          /\ fetches[i].key # key

\* C2: A is selected, then B before A's fetch settles, and nothing is selected
\* afterwards: from the moment B's fetch has settled the state is success or
\* error for B, in every later state too, also after A's fetch is fulfilled.
C2_FinalStateIsLatestSelection ==
    (/\ Len(fetches) >= 2
     /\ ~Latest.aborted
     /\ Latest.outcome # "pending")
    => /\ state.status \in {"success", "error"}
       /\ state.key = Latest.key
       /\ state.status = "success" <=> Latest.outcome = "fulfilled"
       /\ state.status = "success" =>
             state.data = ObjectAccess(Latest.key, Latest.disposition)

\* A then B selected, B's fetch settled, and A's fetch was fulfilled last.
C2_Witness ==
    /\ Len(fetches) = 2
    /\ fetches[1].key = "A" /\ fetches[2].key = "B"
    /\ key = "B"
    /\ fetches[2].outcome # "pending"
    /\ lastSettled = 1
    /\ fetches[1].outcome = "fulfilled"
    /\ state.status \in {"success", "error"}

\* C3: idle -> loading -> {success | error}. A step into success or error for
\* k starts in loading for k; a step that selects a non-empty key ends in
\* loading for it and one that selects no key ends in idle; no step leads from
\* idle to success or error.
C3_StateMachine ==
    [][ /\ (state' # state /\ state'.status \in {"success", "error"})
             => state = Loading(state'.key)
        /\ (<<key', disposition'>> # <<key, disposition>>)
             => state' = IF Falsy(key') THEN Idle ELSE Loading(key')
        /\ state.status = "idle" => state'.status \in {"idle", "loading"}
      ]_vars

\* An error state reached for the second selection, and the first one dropped.
C3_Witness ==
    /\ state.status = "error"
    /\ state.key = "B"
    /\ Len(fetches) = 2
    /\ fetches[1].dropped

(***************************************************************************)
(* Claims about listObjectsPaginated, under SpecList                       *)
(***************************************************************************)
Listed == result.status = "ok"

\* What the storage holds, read off the bucket and not off the result.
StoredFiles == { i \in 1..MaxFiles : bucket.files[i].present }
StoredKey(i) == result.prefix \o <<NameChars[i]>>
\* The stored file an object entry stands for
StoredIndex(entry) == CHOOSE i \in StoredFiles : StoredKey(i) = entry.key

\* The two sorted lists of the listing, before they are cut into pages.
Response == ListObjectsV2(bucket, result.prefix)
FullObjects == AllObjects(Response, engine)
FullFolders == AllFolders(Response, result.prefix, engine)

\* The pages 1..n of a list, one after the other, `size` items per page
RECURSIVE ConcatPages(_, _, _)
ConcatPages(all, n, size) ==
    IF n = 0 THEN <<>> ELSE ConcatPages(all, n - 1, size) \o Paginate(all, n, size)

Distinct(s) == \A i, j \in 1..Len(s) : s[i] = s[j] => i = j

\* n = ceil(a / b), said without the division
IsCeiling(n, a, b) == n * b >= a /\ (n - 1) * b < a

\* C4: for the stored bucket and the page size of the request, the object pages
\* 1..totalPages in order make up the full sorted object list, every stored
\* file exactly once and none missing; the folder pages 1..totalPages make up
\* the full sorted folder list, every folder once. The page returned is the
\* page of that number.
C4_PagesConcatenateToFullList ==
    Listed =>
        \A allObjects \in {FullObjects}, allFolders \in {FullFolders} :
            LET files == result.pagination.files
                dirs == result.pagination.folders
                objects == ConcatPages(allObjects, files.totalPages, files.itemsPerPage)
                folders == ConcatPages(allFolders, dirs.totalPages, dirs.itemsPerPage)
            IN  /\ result.objects =
                      Paginate(allObjects, files.currentPage, files.itemsPerPage)
                /\ result.folders =
                      Paginate(allFolders, dirs.currentPage, dirs.itemsPerPage)
                /\ objects = allObjects
                /\ Len(objects) = Cardinality(StoredFiles)
                /\ { objects[i].key : i \in 1..Len(objects) }
                      = { StoredKey(i) : i \in StoredFiles }
                /\ folders = allFolders
                /\ Len(folders) = dirs.totalItems
                /\ Distinct(folders)

\* Page 2 of several pages of files was asked, and the folders fill two pages.
C4_Witness ==
    /\ Listed
    /\ result.pagination.files.currentPage = 2
    /\ result.pagination.files.totalPages >= 2
    /\ result.objects # <<>>
    /\ result.pagination.folders.totalPages >= 2

\* C5: in the folders and in the files metadata totalPages is
\* ceil(totalItems / itemsPerPage), and 0 exactly when totalItems is 0; an
\* empty bucket gives empty objects and folders, totalItems 0, totalPages 0 and
\* hasNextPage false.
C5_TotalPagesIsCeiling ==
    Listed =>
        /\ \A m \in {result.pagination.folders, result.pagination.files} :
              /\ IsCeiling(m.totalPages, m.totalItems, m.itemsPerPage)
              /\ m.totalPages = 0 <=> m.totalItems = 0
        /\ result.pagination.files.totalItems = Cardinality(StoredFiles)
        /\ (StoredFiles = {} /\ bucket.folders = {}) =>
              /\ result.objects = <<>> /\ result.folders = <<>>
              /\ \A m \in {result.pagination.folders, result.pagination.files} :
                    m.totalItems = 0 /\ m.totalPages = 0 /\ ~m.hasNextPage

\* Three files at two per page: two pages; and nothing stored in the folders.
C5_Witness ==
    /\ Listed
    /\ result.pagination.files.totalItems = 3
    /\ result.pagination.files.itemsPerPage = 2
    /\ result.pagination.files.totalPages = 2
    /\ result.pagination.folders.totalItems = 0
    /\ result.pagination.folders.totalPages = 0

\* The page the request asked for (the default when it left the field out)
Requested(page) == IF page = Omitted THEN DefaultPage ELSE page

\* A page past the end: no error, an empty page, no next page, the page echoed.
PastTheEnd(m, page, asked) ==
    m.currentPage > m.totalPages =>
        /\ page = <<>>
        /\ ~m.hasNextPage
        /\ m.currentPage = Requested(asked)

\* C6 as stated: a page number greater than totalPages is not an error and
\* gives an empty page with hasNextPage = false and hasPrevPage = true, while
\* currentPage echoes the requested page.
C6_PastTheEndAsStated ==
    (request.sent /\ paginatedListSchemaOk(request)) =>
        /\ Listed
        /\ PastTheEnd(result.pagination.folders, result.folders, request.foldersPage)
        /\ PastTheEnd(result.pagination.files, result.objects, request.filesPage)
        /\ \A m \in {result.pagination.folders, result.pagination.files} :
              m.currentPage > m.totalPages => m.hasPrevPage

\* C6, amended: a page number greater than totalPages is not an error and
\* gives an empty page with hasNextPage = false, while currentPage echoes the
\* requested page; hasPrevPage is true exactly when the page is greater than 1,
\* so it is false for page 1 of an empty list.
C6_PastTheEnd ==
    (request.sent /\ paginatedListSchemaOk(request)) =>
        /\ Listed
        /\ PastTheEnd(result.pagination.folders, result.folders, request.foldersPage)
        /\ PastTheEnd(result.pagination.files, result.objects, request.filesPage)
        /\ \A m \in {result.pagination.folders, result.pagination.files} :
              m.currentPage > m.totalPages => (m.hasPrevPage <=> m.currentPage > 1)

\* Page 2 of a one-page file list, and page 1 of an empty folder list.
C6_Witness ==
    /\ Listed
    /\ result.pagination.files.currentPage = 2
    /\ result.pagination.files.totalPages = 1
    /\ result.pagination.files.hasPrevPage
    /\ result.pagination.folders.currentPage = 1
    /\ result.pagination.folders.totalPages = 0
    /\ ~result.pagination.folders.hasPrevPage

\* C7: each returned page has min(itemsPerPage, max(0, totalItems -
\* (page - 1) * itemsPerPage)) entries, hence at most itemsPerPage; for the
\* files totalItems is the number of stored files.
C7_PageLength ==
    Listed =>
        LET Expected(m) ==
                Min(m.itemsPerPage,
                    Max(0, m.totalItems - (m.currentPage - 1) * m.itemsPerPage))
        IN  /\ Len(result.objects) = Expected(result.pagination.files)
            /\ Len(result.folders) = Expected(result.pagination.folders)
            /\ Len(result.objects) <= result.pagination.files.itemsPerPage
            /\ Len(result.folders) <= result.pagination.folders.itemsPerPage
            /\ result.pagination.files.totalItems = Cardinality(StoredFiles)

\* A last page that is shorter than the page size.
C7_Witness ==
    /\ Listed
    /\ result.pagination.files.itemsPerPage = 2
    /\ result.pagination.files.totalItems = 3
    /\ result.pagination.files.currentPage = 2
    /\ Len(result.objects) = 1

\* The keys of a page of objects
Keys(objects) == [i \in 1..Len(objects) |-> objects[i].key]

\* The bucket of the example: a (the earlier date), b (the later date), c
\* (no date), and nothing else.
ExampleBucket ==
    /\ bucket.files[1] = [present |-> TRUE, dated |-> TRUE, at |-> 3]
    /\ bucket.files[2] = [present |-> TRUE, dated |-> TRUE, at |-> 12]
    /\ bucket.files[3] = [present |-> TRUE, dated |-> FALSE, at |-> 0]
    /\ \A i \in 4..MaxFiles : ~bucket.files[i].present

\* C8: the objects are sorted before they are cut into pages: of two entries
\* with a lastModified the later one comes first, and every entry without one
\* comes after all that have one; the returned page is the requested slice of
\* that order. Under "d/" with a (earlier), b (later), c (undated) and two per
\* page, page 1 is [b, a], page 2 is [c] and totalPages is 2.
C8_SortedNewestFirst ==
    Listed =>
        \A all \in {FullObjects} :
        LET file == [i \in 1..Len(all) |-> bucket.files[StoredIndex(all[i])]]
            m == result.pagination.files
            first == (m.currentPage - 1) * m.itemsPerPage + 1
        IN  /\ \A i, j \in 1..Len(all) :
                  i < j =>
                    /\ (file[i].dated /\ file[j].dated) => file[i].at >= file[j].at
                    /\ file[j].dated => file[i].dated
            /\ \A i \in 1..Len(all) :
                  (all[i].lastModified # Undefined) <=> file[i].dated
            /\ \A k \in 1..Len(result.objects) :
                  result.objects[k] = all[first + k - 1]
            /\ (ExampleBucket /\ result.prefix = <<"d", "/">> /\ m.itemsPerPage = 2) =>
                  /\ m.totalPages = 2
                  /\ m.currentPage = 1 =>
                        Keys(result.objects) = << <<"d", "/", "b">>, <<"d", "/", "a">> >>
                  /\ m.currentPage = 2 =>
                        Keys(result.objects) = << <<"d", "/", "c">> >>

\* The example's page 2.
C8_Witness ==
    /\ Listed
    /\ ExampleBucket
    /\ result.prefix = <<"d", "/">>
    /\ result.pagination.files.itemsPerPage = 2
    /\ result.pagination.files.currentPage = 2
    /\ Keys(result.objects) = << <<"d", "/", "c">> >>

\* C9: every folder entry has a name without a trailing slash and a prefix
\* that begins with the normalized queried prefix, is queriedPrefix + name +
\* "/", and ends with exactly one slash.
C9_FolderNameAndPrefix ==
    Listed =>
        \A i \in 1..Len(result.folders) :
            LET f == result.folders[i]
            IN  /\ ~EndsWith(f.name, Slash)
                /\ StartsWith(f.prefix, result.prefix)
                /\ f.prefix = result.prefix \o f.name \o Slash
                /\ EndsWith(f.prefix, Slash)
                /\ ~EndsWith(f.prefix, Slash \o Slash)

\* C10: no folder entry has an empty name or a name equal to the queried
\* prefix; a common prefix whose name is empty once the queried prefix and the
\* trailing slash are stripped is discarded.
C10_NoEmptyFolderName ==
    Listed =>
        \A i \in 1..Len(result.folders) :
            /\ result.folders[i].name # <<>>
            /\ result.folders[i].name # result.prefix

\* Another page number the schema accepts
OtherPage(page) == (Requested(page) % MaxPage) + 1

\* The request of this state, as it was sent
SentInput ==
    [prefix |-> request.prefix, foldersPage |-> request.foldersPage,
     filesPage |-> request.filesPage, itemsPerPage |-> request.itemsPerPage]

\* C17: the two lists are paginated independently. The same request for
\* another files page, on the same storage, returns the same folders and the
\* same folders pagination; the same request for another folders page returns
\* the same objects and the same files pagination.
C17_PagesIndependent ==
    Listed =>
        \A otherFiles \in { ListObjectsPaginatedResult(bucket, engine,
                                [SentInput EXCEPT !.filesPage = OtherPage(@)]) } :
        \A otherFolders \in { ListObjectsPaginatedResult(bucket, engine,
                                [SentInput EXCEPT !.foldersPage = OtherPage(@)]) } :
            /\ otherFiles.folders = result.folders
            /\ otherFiles.pagination.folders = result.pagination.folders
            /\ otherFolders.objects = result.objects
            /\ otherFolders.pagination.files = result.pagination.files

\* Two pages of files and two pages of folders, and the request asks for the
\* second page of files and the first page of folders.
C17_Witness ==
    /\ Listed
    /\ request.filesPage = 2
    /\ request.foldersPage = 1
    /\ result.pagination.files.totalPages = 2
    /\ result.pagination.folders.totalPages = 2
    /\ Len(result.objects) = 1
    /\ Len(result.folders) = 1

(***************************************************************************)
(* Claims about one server-function call, under SpecServer                 *)
(***************************************************************************)
\* A number the request supplies that is not a positive integer
NotAPositiveInteger(x) == x.whole # Omitted /\ (x.half \/ x.whole <= 0)

\* A listing request the contract refuses
BadListRequest(raw) ==
    \/ NotAPositiveInteger(raw.foldersPage)
    \/ NotAPositiveInteger(raw.filesPage)
    \/ NotAPositiveInteger(raw.itemsPerPage)
    \/ (raw.itemsPerPage.whole # Omitted /\ raw.itemsPerPage.whole > 50)

\* An access request the contract refuses
BadAccessRequest(raw) ==
    \/ raw.key = Undefined
    \/ raw.key = <<>>
    \/ raw.disposition \notin {Null, "inline", "attachment"}

BadRequest ==
    \/ call.fn = "listObjectsPaginated" /\ BadListRequest(call.raw)
    \/ call.fn = "getObjectAccess" /\ BadAccessRequest(call.raw)

\* C11: a listing request whose foldersPage or filesPage is not a positive
\* integer or whose itemsPerPage is outside 1..50, and an access request with
\* an empty key or a disposition other than inline or attachment, ends in the
\* validation error, and no command (list, head, presign) was handed to the
\* storage client for it: a command is only ever issued for a request that
\* passed validation.
C11_ValidationBeforeStorage ==
    /\ BadRequest =>
          /\ call.pc = "thrown"
          /\ reply = Throw(ValidationError)
          /\ ops = <<>>
    /\ ops # <<>> => call.fn # "none" /\ ~BadRequest

\* A listing request with a page number that is not an integer was refused,
\* and the storage was never called.
C11_Witness ==
    /\ call.fn = "listObjectsPaginated"
    /\ call.raw.filesPage = AndAHalf(1)
    /\ call.pc = "thrown"
    /\ ops = <<>>

\* The state after the list call of a listing request failed
ListCallFailed ==
    /\ call.fn = "listObjectsPaginated"
    /\ call.pc = "thrown"
    /\ Len(ops) = 1

\* C12: when the storage's list call fails, listObjectsPaginated returns no
\* listing: the call ends with the storage's error, not with an empty or a
\* partial page. A listing is returned only after the storage answered.
C12_ListFailurePropagates ==
    /\ ListCallFailed =>
          /\ reply.status = "error"
          /\ \E kind \in {"Forbidden", "Network"} : reply.error = ListError(kind)
    /\ (call.fn = "listObjectsPaginated" /\ reply.status = "ok") =>
          call.pc = "returned"

\* The list call of a valid request failed with a network error.
C12_Witness ==
    /\ ListCallFailed
    /\ reply = Throw(ListError("Network"))

\* What the caller of getObjectAccess shows for a rejection: the state the
\* .catch callback of useObjectAccess sets.
Shown(k, error) == Failure(k, MessageOf(error))

\* C13: a getObjectAccess call for a key that names no object fails with an
\* outcome the caller can tell from the outcome of an authorisation or
\* transport failure: no failure of those kinds is shown as the missing object
\* is.
C13_NotFoundIsDistinct ==
    (/\ call.fn = "getObjectAccess"
     /\ call.pc = "thrown"
     /\ Len(ops) = 1
     /\ call.failure = "NotFound")
    => \A kind \in {"Forbidden", "Network"} :
          Shown(call.data.key, HeadError(kind)) # Shown(call.data.key, reply.error)

\* The disposition the request asks for; inline when it names none.
RequestedDisposition(raw) ==
    IF raw.disposition = "attachment" THEN "attachment" ELSE "inline"

\* C14: within one getObjectAccess call the head comes before the presign. The
\* commands issued are the head for the requested key, then, only after the
\* head succeeded, one presign for the same key that carries the requested
\* disposition and the content type the head returned as response overrides
\* and expires after 300 seconds. When the head fails nothing is signed and
\* the call returns no signed URL.
C14_HeadThenPresign ==
    call.fn = "getObjectAccess" =>
        /\ Len(ops) <= 2
        /\ Len(ops) >= 1 =>
              /\ ops[1].command = "HeadObject"
              /\ ops[1].Key = call.raw.key
        /\ Len(ops) = 2 =>
              /\ call.pc = "returned"
              /\ FileAt(bucket, call.raw.key) # 0
              /\ ops[2].command = "presign"
              /\ ops[2].expiresIn = 300
              /\ ops[2].signs.command = "GetObject"
              /\ ops[2].signs.Key = call.raw.key
              /\ ops[2].signs.ResponseContentDisposition = RequestedDisposition(call.raw)
              /\ ops[2].signs.ResponseContentType = call.head.ContentType
              /\ reply.status = "ok"
              /\ reply.signedUrl = [signs |-> ops[2].signs, expiresIn |-> 300]
        /\ call.pc = "thrown" => Len(ops) <= 1 /\ reply.status = "error"
        /\ reply.status = "ok" => Len(ops) = 2

\* An attachment was requested for a stored object with a content type, and
\* the URL was signed.
C14_Witness ==
    /\ call.fn = "getObjectAccess"
    /\ call.pc = "returned"
    /\ call.raw.disposition = "attachment"
    /\ call.head.ContentType = "text/plain"
    /\ Len(ops) = 2

\* C18: a listing request hands exactly one list command to the storage, with
\* delimiter "/", at most 1000 keys and no continuation token, and none after
\* the answer. The totals count the entries of that one answer and nothing
\* else: files.totalItems is the number of files the answer holds,
\* folders.totalItems is at most the number of sub-prefixes it holds, and every
\* object of the page is a file of the answer. When the storage reports the
\* answer as truncated, the result carries isTruncated = TRUE, and its
\* pagination still covers only the entries returned, fewer than are stored.
C18_OneListCall ==
    call.fn = "listObjectsPaginated" =>
        /\ Len(ops) <= 1
        /\ call.pc \in {"listing", "returned"} => Len(ops) = 1
        /\ Len(ops) = 1 =>
              /\ ops[1].command = "ListObjectsV2"
              /\ ops[1].Delimiter = "/"
              /\ ops[1].MaxKeys = 1000
              /\ ops[1].ContinuationToken = Undefined
        /\ call.pc = "returned" =>
              LET returned == call.response
                  stored == ListObjectsV2(bucket, reply.prefix)
              IN  /\ reply.isTruncated = returned.IsTruncated
                  /\ reply.pagination.files.totalItems = Len(returned.Contents)
                  /\ reply.pagination.folders.totalItems <= Len(returned.CommonPrefixes)
                  /\ \A i \in 1..Len(reply.objects) :
                        \E j \in 1..Len(returned.Contents) :
                            reply.objects[i].key = returned.Contents[j].Key
                  /\ reply.isTruncated =>
                        reply.pagination.files.totalItems
                          + reply.pagination.folders.totalItems
                        < Len(stored.Contents) + Len(stored.CommonPrefixes)

\* The storage holds two files and answered with one, reporting truncation.
C18_Witness ==
    /\ call.fn = "listObjectsPaginated"
    /\ call.pc = "returned"
    /\ reply.isTruncated
    /\ Len(Contents(bucket, reply.prefix)) = 2
    /\ reply.pagination.files.totalItems = 1

(***************************************************************************)
(* Claims about the start of the process, under SpecStartup                *)
(***************************************************************************)
\* A setting that is missing (not set, or set to nothing) or invalid (an
\* endpoint that is not a URL)
BadSetting(pe, s) ==
    \/ pe[s] = Unset
    \/ pe[s] = ""
    \/ (s = "S3_ENDPOINT" /\ pe[s] = "text")

\* C16: the five settings are validated when the process starts: whenever one
\* of them is missing or invalid, the start fails, and no listing or access
\* request is served with that configuration.
C16_BadEnvironmentFailsStartup ==
    (\E s \in Settings : BadSetting(processEnv, s)) =>
        /\ server # "up"
        /\ call = NoCall
        /\ ops = <<>>

(***************************************************************************)
(* Claims about normalizePrefix, under SpecPrefix                          *)
(***************************************************************************)
\* The prefix text without its leading slashes; nothing for no text
WithoutLeadingSlashes(p) == IF p = Undefined THEN <<>> ELSE StripLeadingSlashes(p)

\* C15: the normalized prefix has no leading slash and is empty or ends with
\* a slash. A prefix that is absent, empty, or empty once its leading slashes
\* are stripped (such as "/") normalizes to the empty prefix; otherwise the
\* result is the stripped prefix, with a slash appended only when it has none
\* at its end.
C15_NormalizedPrefix ==
    result.status = "normalized" =>
        LET stripped == WithoutLeadingSlashes(request.prefix)
        IN  /\ ~StartsWith(result.prefix, Slash)
            /\ result.prefix = <<>> \/ EndsWith(result.prefix, Slash)
            /\ stripped = <<>> => result.prefix = <<>>
            /\ stripped # <<>> =>
                  result.prefix = IF EndsWith(stripped, Slash) THEN stripped
                                  ELSE stripped \o Slash

(***************************************************************************)
(* Claims about ExplorerPage, under SpecPage                               *)
(***************************************************************************)
\* C19: after any file clicks and reloads of the listing, once the effects
\* have run, selectedKey is null exactly when the page has no objects and is
\* otherwise the key of an object of the page, and the access hook shows no
\* object that is not on the page. When the effects run while the selection is
\* not on the page, the selection becomes the first object's key (null on an
\* empty page).
C19_SelectionOnPage ==
    /\ [](~effectPending =>
            /\ selectedKey = Null <=> dataObjects = <<>>
            /\ selectedKey # Null => OnPage(dataObjects, selectedKey)
            /\ HookKey(accessState) = selectedKey)
    /\ [][(RunEffects /\ ~OnPage(dataObjects, selectedKey))
            => selectedKey' = FirstKey(dataObjects)]_vars

\* File A was selected and its download started; the page was then reloaded
\* without A, and the effects have put the selection and the hook on B, the
\* first file of the new page.
C19_Witness ==
    /\ ~effectPending
    /\ dataObjects = <<"B", "C">>
    /\ selectedKey = "B"
    /\ accessState.status = "loading"
    /\ accessState.key = "B"
    /\ downloads["A"] = 1

\* A handleDownload call is awaiting getObjectAccess.
InFlight == \E k \in PageKeys : downloads[k] > 0

\* C20: downloadKey is non-null whenever a download request is in flight, and
\* is null once all of them have completed: when two downloads overlap, the
\* completion of one does not clear the indicator of the other.
C20_IndicatorTracksDownloads == InFlight <=> downloadKey # Null

(***************************************************************************)
(* Claims about the URL search state, under SpecSearch                     *)
(***************************************************************************)
\* A step of one of the three handlers that set the prefix
PrefixStep ==
    \/ \E value \in FormValues : handleSearch(value)
    \/ \E prefix \in FolderPrefixes : handleFolderSelect(prefix)
    \/ \E prefix \in FolderPrefixes : handleBreadcrumbSelect(prefix)

\* C21: every change of prefix (search submit, folder click, breadcrumb click)
\* sets foldersPage and filesPage to 1 and leaves itemsPerPage as it was; a
\* change of the folders page leaves prefix, filesPage and itemsPerPage as
\* they were, and a change of the files page leaves prefix, foldersPage and
\* itemsPerPage as they were.
C21_SearchUpdates ==
    [][ /\ PrefixStep =>
              /\ search'.foldersPage = 1
              /\ search'.filesPage = 1
              /\ search'.itemsPerPage = search.itemsPerPage
        /\ (\E page \in 1..MaxPage : handleFoldersPageChange(page)) =>
              /\ search'.prefix = search.prefix
              /\ search'.filesPage = search.filesPage
              /\ search'.itemsPerPage = search.itemsPerPage
        /\ (\E page \in 1..MaxPage : handleFilesPageChange(page)) =>
              /\ search'.prefix = search.prefix
              /\ search'.foldersPage = search.foldersPage
              /\ search'.itemsPerPage = search.itemsPerPage ]_vars

\* A folder was clicked while the second page of folders and of files was
\* shown, two items per page: both pages are back at 1, the page size is kept.
C21_Witness ==
    /\ navigation.handler = "handleFolderSelect"
    /\ navigation.prev.foldersPage = 2
    /\ navigation.prev.filesPage = 2
    /\ navigation.prev.itemsPerPage = 2
    /\ navigation.prev.prefix # search.prefix
    /\ search.foldersPage = 1
    /\ search.filesPage = 1
    /\ search.itemsPerPage = 2

(***************************************************************************)
(* Specifications                                                          *)
(***************************************************************************)
\* The state of the listing while only the hook runs: nothing stored, no call.
ListIdle ==
    /\ bucket = [files |-> [i \in 1..MaxFiles |->
                              [present |-> FALSE, dated |-> FALSE, at |-> 0]],
                 folders |-> {}]
    /\ engine = "xy"
    /\ request = NoRequest
    /\ result = NotCalled

\* The server is up with a good environment and no call is in progress.
ServerIdle ==
    /\ processEnv = GoodEnv
    /\ server = "up"
    /\ call = NoCall
    /\ ops = <<>>
    /\ reply = NoReply

\* The page shows an empty listing and nothing is selected.
PageIdle ==
    /\ dataObjects = <<>>
    /\ selectedKey = Null
    /\ effectPending = FALSE
    /\ accessState = Idle
    /\ downloadKey = Null
    /\ downloads = [k \in PageKeys |-> 0]

\* No navigation: the page was opened without search parameters.
SearchIdle ==
    /\ search = [prefix |-> Undefined, foldersPage |-> DefaultPage,
                 filesPage |-> DefaultPage, itemsPerPage |-> DefaultItemsPerPage]
    /\ navigation = NoNavigation

\* The hook alone: the storage is empty and no listing is requested.
InitSpecAccess == InitAccess /\ ListIdle /\ ServerIdle /\ PageIdle /\ SearchIdle
SpecAccess == InitSpecAccess /\ [][NextAccess]_vars

\* The listing alone: no object is selected.
InitSpecList == InitList /\ InitAccess /\ ServerIdle /\ PageIdle /\ SearchIdle
SpecList == InitSpecList /\ [][NextList]_vars

\* Files of the step-by-step server calls: each stored file carries a date.
ServerBuckets ==
    { b \in Buckets : \A i \in 1..MaxFiles : b.files[i].present => b.files[i].dated }

\* One call of a server function on a server that is up.
InitSpecServer ==
    /\ bucket \in ServerBuckets
    /\ engine \in {"xy", "yx"}
    /\ request = NoRequest
    /\ result = NotCalled
    /\ ServerIdle
    /\ InitAccess
    /\ PageIdle /\ SearchIdle
SpecServer == InitSpecServer /\ [][NextServer]_vars

\* A storage that holds the file "a" and nothing else
OneFile ==
    [files |-> [i \in 1..MaxFiles |->
                  IF i = 1 THEN [present |-> TRUE, dated |-> TRUE, at |-> 3]
                  ELSE [present |-> FALSE, dated |-> FALSE, at |-> 0]],
     folders |-> {}]

\* The process starts with any environment, then serves one call.
InitSpecStartup ==
    /\ processEnv \in ProcessEnvs
    /\ server = "starting"
    /\ call = NoCall
    /\ ops = <<>>
    /\ reply = NoReply
    /\ bucket = OneFile
    /\ engine = "xy"
    /\ request = NoRequest
    /\ result = NotCalled
    /\ InitAccess
    /\ PageIdle /\ SearchIdle
SpecStartup == InitSpecStartup /\ [][NextStartup]_vars

\* normalizePrefix alone, on every prefix text.
InitSpecPrefix == InitPrefix /\ InitAccess /\ ServerIdle /\ PageIdle /\ SearchIdle
SpecPrefix == InitSpecPrefix /\ [][NextPrefix]_vars

\* The search state alone.
InitSpecSearch == InitSearch /\ InitAccess /\ ListIdle /\ ServerIdle /\ PageIdle
SpecSearch == InitSpecSearch /\ [][NextSearch]_vars

\* The explorer page alone.
InitSpecPage == InitPage /\ InitAccess /\ ListIdle /\ ServerIdle /\ SearchIdle
SpecPage == InitSpecPage /\ [][NextPage]_vars

=============================================================================
